---- MODULE Spec2Model ----
(***************************************************************************)
(* ckad-prep-project: the probes service (day07-probes/app-with-probes.py) *)
(* and the queue worker (day05-worker/worker.py).                          *)
(*                                                                         *)
(* SpecProbes runs the probes service: its two flags, its clock and the    *)
(* requests it handles.  SpecWorker runs several worker processes against  *)
(* one 'work_queue' list and one output file.                              *)
(***************************************************************************)
EXTENDS Integers, Sequences, FiniteSets

VARIABLES
    \* ---- probes service (app-with-probes.py) ----
    now,         \* time.time(), in ticks
    start_time,  \* module global start_time, in ticks
    healthy,     \* module global healthy
    ready,       \* module global ready
    resp,        \* the response to the request handled last
    trace,       \* the requests handled so far, with their status codes
    \* ---- worker (worker.py) ----
    queue,       \* the redis list 'work_queue'
    file,        \* the characters of OUTPUT_DIR/output.txt
    pc,          \* each worker's position in the script
    message,     \* each worker's local variable message
    counter,     \* each worker's local variable counter
    stdout,      \* the line each worker printed last
    exitcode,    \* each worker's exit status, once it has exited
    enqueued,    \* how many items were pushed onto 'work_queue'
    popped,      \* the items each worker's lpop has returned, in order
    appends      \* how many times each worker has appended to the file

probeVars  == <<now, start_time, healthy, ready, resp, trace>>
workerVars == <<queue, file, pc, message, counter, stdout, exitcode,
                enqueued, popped, appends>>
vars       == <<now, start_time, healthy, ready, resp, trace,
                queue, file, pc, message, counter, stdout, exitcode,
                enqueued, popped, appends>>

\* ---- bounds ----
TicksPerSecond == 2     \* clock resolution of the model
MaxReqs        == 4     \* requests handled in one run
MaxEnq         == 2     \* items pushed onto 'work_queue' in one run
MaxPolls       == 10    \* loop iterations of all workers in one run

\* ---- program constants ----
StartupSeconds == 5
HeartbeatEvery == 10

\* the process starts at one of these times
StartTimes == {0, 1}

\* the clock stops advancing a second after the startup delay has passed
MaxNow == (StartupSeconds + 1) * TicksPerSecond + 1

\* Python's None
None == [none |-> TRUE]

\* no request handled yet
NoResponse == [route |-> "", body |-> [status |-> ""], code |-> 0, at |-> 0]

(***************************************************************************)
(* Probes service                                                          *)
(***************************************************************************)
\* int(x) of a non-negative number of ticks, in seconds
IntSeconds(ticks) == ticks \div TicksPerSecond

\* a Flask response: jsonify(body), code; `at` is the value of time.time() the
\* handler read, 0 for a handler that reads no clock
Response(route, body, code) ==
    [route |-> route, body |-> body, code |-> code,
     at |-> IF route \in {"/", "/startup"} THEN now ELSE 0]

\* the handler's return: Flask sends the response; nothing of the worker moves
Reply(r) ==
    /\ Len(trace) < MaxReqs
    /\ resp'  = r
    /\ trace' = Append(trace, [route |-> r.route, code |-> r.code])
    /\ UNCHANGED workerVars

ProbesInit ==
    /\ start_time \in StartTimes
    /\ now = start_time
    /\ healthy = TRUE
    /\ ready = TRUE
    /\ resp = NoResponse
    /\ trace = <<>>

\* time passes
Tick ==
    /\ now < MaxNow
    /\ now' = now + 1
    /\ UNCHANGED <<start_time, healthy, ready, resp, trace>>
    /\ UNCHANGED workerVars

home ==
    /\ Reply(Response("/", [service |-> "event-api", message |-> "Hello!",
                            uptime |-> IntSeconds(now - start_time)], 200))
    /\ UNCHANGED <<now, start_time, healthy, ready>>

\* health answering the readiness code for a false flag
HealthReplyMutant(flag) ==
    IF flag THEN Response("/health", [status |-> "healthy"], 200)
            ELSE Response("/health", [status |-> "unhealthy"], 503)

HealthReply(flag) ==
    IF flag THEN Response("/health", [status |-> "healthy"], 200)
            ELSE Response("/health", [status |-> "unhealthy"], 500)

health ==
    /\ Reply(HealthReply(healthy))
    /\ UNCHANGED <<now, start_time, healthy, ready>>

ReadyReply(flag) ==
    IF flag THEN Response("/ready", [status |-> "ready"], 200)
            ELSE Response("/ready", [status |-> "not ready"], 503)

ready_check ==
    /\ Reply(ReadyReply(ready))
    /\ UNCHANGED <<now, start_time, healthy, ready>>

\* startup with >= for >
StartupReplyMutant(uptime) ==
    IF uptime >= StartupSeconds * TicksPerSecond
        THEN Response("/startup", [status |-> "started"], 200)
        ELSE Response("/startup", [status |-> "starting"], 503)

StartupReply(uptime) ==
    IF uptime > StartupSeconds * TicksPerSecond
        THEN Response("/startup", [status |-> "started"], 200)
        ELSE Response("/startup", [status |-> "starting"], 503)

startup ==
    /\ Reply(StartupReply(now - start_time))
    /\ UNCHANGED <<now, start_time, healthy, ready>>

\* fail without its `global healthy`: the assignment binds a local
failMutant ==
    /\ Reply(Response("/fail", [message |-> "Liveness will now fail"], 200))
    /\ UNCHANGED <<now, start_time, healthy, ready>>

\* fail clearing both flags
failBothMutant ==
    /\ healthy' = FALSE
    /\ ready' = FALSE
    /\ Reply(Response("/fail", [message |-> "Liveness will now fail"], 200))
    /\ UNCHANGED <<now, start_time>>

fail ==
    /\ healthy' = FALSE
    /\ Reply(Response("/fail", [message |-> "Liveness will now fail"], 200))
    /\ UNCHANGED <<now, start_time, ready>>

\* unready assigning healthy for ready
unreadyMutant ==
    /\ healthy' = FALSE
    /\ Reply(Response("/unready", [message |-> "Readiness will now fail"], 200))
    /\ UNCHANGED <<now, start_time, ready>>

unready ==
    /\ ready' = FALSE
    /\ Reply(Response("/unready", [message |-> "Readiness will now fail"], 200))
    /\ UNCHANGED <<now, start_time, healthy>>

\* recover restoring healthy only
recoverMutant ==
    /\ healthy' = TRUE
    /\ Reply(Response("/recover", [message |-> "All probes recovered"], 200))
    /\ UNCHANGED <<now, start_time, ready>>

recover ==
    /\ healthy' = TRUE
    /\ ready' = TRUE
    /\ Reply(Response("/recover", [message |-> "All probes recovered"], 200))
    /\ UNCHANGED <<now, start_time>>

ProbesNext ==
    \/ Tick
    \/ home
    \/ health
    \/ ready_check
    \/ startup
    \/ fail
    \/ unready
    \/ recover

(***************************************************************************)
(* Worker                                                                  *)
(***************************************************************************)
\* the WORKER_NAME of each worker process
Workers == {"worker-1", "worker-2"}

\* the strings a producer pushes, as sequences of characters: '', 'a', 'a\nb'
ItemValues == {<<>>, <<"a">>, <<"a", "\n", "b">>}

\* bool(x) for the value lpop returns: None and '' are false
Truthy(m) == m # None /\ m.val # <<>>

\* f"[{WORKER_NAME}] Processed: {message}\n"
OutputLine(w, val) == <<"[", w, "] Processed: ">> \o val \o <<"\n">>

\* r.lpop('work_queue'): the head of the list, or None when the list is empty
LPopValue(q) == IF q = <<>> THEN None ELSE Head(q)
LPopRest(q)  == IF q = <<>> THEN q ELSE Tail(q)

WorkerInit ==
    /\ queue = <<>>
    /\ file = <<>>
    /\ pc = [w \in Workers |-> "connect"]
    /\ message = [w \in Workers |-> None]
    /\ counter = [w \in Workers |-> 0]
    /\ stdout = [w \in Workers |-> [line |-> "Connecting to Redis", arg |-> <<>>]]
    /\ exitcode = [w \in Workers |-> <<>>]
    /\ enqueued = 0
    /\ popped = [w \in Workers |-> <<>>]
    /\ appends = [w \in Workers |-> 0]

\* a producer pushes one item onto 'work_queue', at either end (LPUSH, RPUSH)
Enqueue ==
    /\ enqueued < MaxEnq
    /\ \E val \in ItemValues :
         LET item == [id |-> enqueued + 1, val |-> val]
         IN  \/ queue' = Append(queue, item)
             \/ queue' = <<item>> \o queue
    /\ enqueued' = enqueued + 1
    /\ UNCHANGED <<file, pc, message, counter, stdout, exitcode, popped, appends>>
    /\ UNCHANGED probeVars

\* Connect without the exit(1): the failure is logged and the script goes on
ConnectMutant(w) ==
    /\ pc[w] = "connect"
    /\ \/ stdout' = [stdout EXCEPT ![w] =
                        [line |-> "Connected to Redis successfully!", arg |-> <<>>]]
       \/ stdout' = [stdout EXCEPT ![w] =
                        [line |-> "Failed to connect to Redis", arg |-> <<>>]]
    /\ counter' = [counter EXCEPT ![w] = 0]
    /\ pc' = [pc EXCEPT ![w] = "loop"]
    /\ UNCHANGED <<queue, file, message, enqueued, popped, appends, exitcode>>
    /\ UNCHANGED probeVars

\* redis.Redis(...) and r.ping(): either both succeed or one of them raises
Connect(w) ==
    /\ pc[w] = "connect"
    /\ \/ /\ stdout' = [stdout EXCEPT ![w] =
                           [line |-> "Connected to Redis successfully!", arg |-> <<>>]]
          /\ counter' = [counter EXCEPT ![w] = 0]
          /\ pc' = [pc EXCEPT ![w] = "loop"]
          /\ UNCHANGED exitcode
       \/ /\ stdout' = [stdout EXCEPT ![w] =
                           [line |-> "Failed to connect to Redis", arg |-> <<>>]]
          /\ exitcode' = [exitcode EXCEPT ![w] = <<1>>]
          /\ pc' = [pc EXCEPT ![w] = "exited"]
          /\ UNCHANGED counter
    /\ UNCHANGED <<queue, file, message, enqueued, popped, appends>>
    /\ UNCHANGED probeVars

RECURSIVE SumOver(_, _)
SumOver(f, S) ==
    IF S = {} THEN 0
    ELSE LET x == CHOOSE y \in S : TRUE IN f[x] + SumOver(f, S \ {x})

\* Poll with the open(output_file, 'a') and a write outside the test of message:
\* an iteration without a message appends a line too
PollMutant(w) ==
    /\ pc[w] = "loop"
    /\ SumOver(counter, Workers) < MaxPolls
    /\ counter' = [counter EXCEPT ![w] = @ + 1]
    /\ message' = [message EXCEPT ![w] = LPopValue(queue)]
    /\ queue' = LPopRest(queue)
    /\ popped' = IF LPopValue(queue) = None THEN popped
                 ELSE [popped EXCEPT ![w] = Append(@, LPopValue(queue))]
    /\ IF Truthy(LPopValue(queue))
         THEN /\ stdout' = [stdout EXCEPT ![w] =
                               [line |-> "Processing", arg |-> LPopValue(queue).val]]
              /\ pc' = [pc EXCEPT ![w] = "write"]
              /\ file' = file
         ELSE /\ stdout' = stdout
              /\ pc' = pc
              /\ file' = file \o OutputLine(w, <<>>)
    /\ UNCHANGED <<exitcode, enqueued, appends>>
    /\ UNCHANGED probeVars

\* one iteration up to the file write: counter += 1, the lpop, the test of message;
\* without a message, the heartbeat and the sleep end the iteration
Poll(w) ==
    /\ pc[w] = "loop"
    /\ SumOver(counter, Workers) < MaxPolls
    /\ counter' = [counter EXCEPT ![w] = @ + 1]
    /\ message' = [message EXCEPT ![w] = LPopValue(queue)]
    /\ queue' = LPopRest(queue)
    /\ popped' = IF LPopValue(queue) = None THEN popped
                 ELSE [popped EXCEPT ![w] = Append(@, LPopValue(queue))]
    /\ IF Truthy(LPopValue(queue))
         THEN /\ stdout' = [stdout EXCEPT ![w] =
                               [line |-> "Processing", arg |-> LPopValue(queue).val]]
              /\ pc' = [pc EXCEPT ![w] = "write"]
         ELSE /\ stdout' = IF (counter[w] + 1) % HeartbeatEvery = 0
                             THEN [stdout EXCEPT ![w] =
                                      [line |-> "Waiting for work...",
                                       arg |-> <<counter[w] + 1>>]]
                             ELSE stdout
              /\ pc' = pc
    /\ UNCHANGED <<file, exitcode, enqueued, appends>>
    /\ UNCHANGED probeVars

\* the rest of an iteration with a message: the append to output.txt and the sleep
WriteOutput(w) ==
    /\ pc[w] = "write"
    /\ file' = file \o OutputLine(w, message[w].val)
    /\ appends' = [appends EXCEPT ![w] = @ + 1]
    /\ stdout' = [stdout EXCEPT ![w] = [line |-> "Completed", arg |-> message[w].val]]
    /\ pc' = [pc EXCEPT ![w] = "loop"]
    /\ UNCHANGED <<queue, message, counter, exitcode, enqueued, popped>>
    /\ UNCHANGED probeVars

\* the process ends inside the loop: it is killed, or lpop or open raises (the loop
\* has no exception handler)
Stop(w) ==
    /\ pc[w] \in {"loop", "write"}
    /\ pc' = [pc EXCEPT ![w] = "stopped"]
    /\ UNCHANGED <<queue, file, message, counter, stdout, exitcode, enqueued,
                   popped, appends>>
    /\ UNCHANGED probeVars

WorkerNext ==
    \/ Enqueue
    \/ \E w \in Workers : Connect(w)
    \/ \E w \in Workers : Poll(w)
    \/ \E w \in Workers : WriteOutput(w)
    \/ \E w \in Workers : Stop(w)

Init ==
    /\ ProbesInit
    /\ WorkerInit

SpecProbes == Init /\ [][ProbesNext]_vars

WorkerRunInit ==
    /\ Init
    /\ start_time = 0

SpecWorker == WorkerRunInit /\ [][WorkerNext]_vars

(***************************************************************************)
(* Properties of the probes service                                        *)
(***************************************************************************)
\* this step handled a request to `route`
Handled(route) ==
    /\ Len(trace') = Len(trace) + 1
    /\ trace'[Len(trace')].route = route

\* the position of the last request of tr to one of `routes`, 0 when there is none
LastIndex(tr, routes) ==
    LET S == {i \in 1..Len(tr) : tr[i].route \in routes}
    IN  IF S = {} THEN 0 ELSE CHOOSE i \in S : \A j \in S : j <= i

\* the last of `setters` and /recover in tr was not one of `setters`
NotSetSinceRecover(tr, setters) ==
    LET i == LastIndex(tr, setters \cup {"/recover"})
    IN  i = 0 \/ tr[i].route = "/recover"

\* the pairs (healthy, ready) the service has been in along tr
FlagsAlong(tr) ==
    {<<NotSetSinceRecover(SubSeq(tr, 1, n), {"/fail"}),
       NotSetSinceRecover(SubSeq(tr, 1, n), {"/unready"})>> : n \in 0..Len(tr)}

\* C1: the response to GET /health is 200 'healthy' when the healthy flag is true
\* and 500 'unhealthy' when it is false, and /health never answers any other code.
C1_HealthStatus ==
    /\ resp.route = "/health" =>
          IF healthy
            THEN resp.code = 200 /\ resp.body = [status |-> "healthy"]
            ELSE resp.code = 500 /\ resp.body = [status |-> "unhealthy"]
    /\ \A i \in 1..Len(trace) :
          trace[i].route = "/health" => trace[i].code \in {200, 500}

C1_Witness ==
    /\ resp.route = "/health"
    /\ resp.code = 500
    /\ \E i \in 1..Len(trace) : trace[i].route = "/health" /\ trace[i].code = 200

\* C2: /fail sets the healthy flag to false, and every /health handled after a
\* /fail with no /recover in between answers 500, whatever else is interleaved.
C2_FailUntilRecover ==
    /\ resp.route = "/fail" => healthy = FALSE
    /\ \A i, j \in 1..Len(trace) :
          ( /\ i < j
            /\ trace[i].route = "/fail"
            /\ trace[j].route = "/health"
            /\ \A k \in (i + 1)..(j - 1) : trace[k].route # "/recover" )
          => trace[j].code = 500

C2_Witness ==
    /\ Len(trace) >= 3
    /\ trace[Len(trace) - 2].route = "/fail"
    /\ trace[Len(trace) - 1].route \in {"/unready", "/ready", "/startup", "/", "/fail"}
    /\ trace[Len(trace)] = [route |-> "/health", code |-> 500]

\* C3: the response to GET /ready is 200 'ready' exactly when the ready flag is
\* true and 503 'not ready' otherwise, and the ready flag is true exactly when no
\* /unready was handled since the start or since the last /recover.
C3_ReadyStatus ==
    /\ resp.route = "/ready" =>
          IF ready
            THEN resp.code = 200 /\ resp.body = [status |-> "ready"]
            ELSE resp.code = 503 /\ resp.body = [status |-> "not ready"]
    /\ ready = NotSetSinceRecover(trace, {"/unready"})

C3_Witness ==
    /\ Len(trace) >= 4
    /\ trace[Len(trace) - 3].route = "/unready"
    /\ trace[Len(trace) - 2] = [route |-> "/ready", code |-> 503]
    /\ trace[Len(trace) - 1].route = "/recover"
    /\ trace[Len(trace)] = [route |-> "/ready", code |-> 200]

\* C4: a /recover step leaves both flags true whatever they were, the /health or
\* /ready handled right after a /recover answers 200, and a /recover handled right
\* after a /recover leaves the flags as they are.
C4_RecoverStep ==
    /\ Handled("/recover") => healthy' = TRUE /\ ready' = TRUE
    /\ (trace # <<>> /\ trace[Len(trace)].route = "/recover") =>
          /\ Handled("/health") => resp'.code = 200
          /\ Handled("/ready") => resp'.code = 200
          /\ Handled("/recover") => healthy' = healthy /\ ready' = ready

C4_Recover == [][C4_RecoverStep]_vars

C4_Witness ==
    /\ Len(trace) = 4
    /\ trace[1].route = "/fail"
    /\ trace[2].route = "/unready"
    /\ trace[3].route = "/recover"
    /\ trace[4].route = "/recover"
    /\ healthy /\ ready

\* C5: the response to GET /startup is 200 'started' exactly when more than
\* StartupSeconds have passed since start_time and 503 'starting' otherwise, also
\* at exactly StartupSeconds; the flags play no part, and with the clock never
\* going back a /startup handled after one that answered 200 answers 200.
C5_Startup ==
    /\ resp.route = "/startup" =>
          IF resp.at - start_time > StartupSeconds * TicksPerSecond
            THEN resp.code = 200 /\ resp.body = [status |-> "started"]
            ELSE resp.code = 503 /\ resp.body = [status |-> "starting"]
    /\ \A i, j \in 1..Len(trace) :
          ( /\ i < j
            /\ trace[i] = [route |-> "/startup", code |-> 200]
            /\ trace[j].route = "/startup" )
          => trace[j].code = 200

C5_Witness ==
    /\ Len(trace) >= 3
    /\ trace[Len(trace) - 2] = [route |-> "/startup", code |-> 200]
    /\ trace[Len(trace) - 1].route \in {"/fail", "/unready"}
    /\ trace[Len(trace)] = [route |-> "/startup", code |-> 200]
    /\ ~healthy \/ ~ready

\* C9: /fail leaves ready as it is, /unready leaves healthy as it is, and /, /health,
\* /ready and /startup leave both as they are; healthy is false exactly when the
\* last of /fail and /recover handled was /fail, and ready is false exactly when the
\* last of /unready and /recover handled was /unready.
C9_Step ==
    /\ Handled("/fail") => ready' = ready
    /\ Handled("/unready") => healthy' = healthy
    /\ \A route \in {"/", "/health", "/ready", "/startup"} :
          Handled(route) => healthy' = healthy /\ ready' = ready
    /\ healthy' = NotSetSinceRecover(trace', {"/fail"})
    /\ ready' = NotSetSinceRecover(trace', {"/unready"})

C9_Independent == [][C9_Step]_vars

\* a run that has been through all four pairs of flags
C9_Witness ==
    /\ FlagsAlong(trace) = BOOLEAN \X BOOLEAN
    /\ healthy /\ ~ready

(***************************************************************************)
(* Properties of the worker                                                *)
(***************************************************************************)
\* the lines of a text file: the characters before each "\n"
RECURSIVE SplitLines(_, _)
SplitLines(chars, line) ==
    IF chars = <<>> THEN (IF line = <<>> THEN <<>> ELSE <<line>>)
    ELSE IF Head(chars) = "\n" THEN <<line>> \o SplitLines(Tail(chars), <<>>)
    ELSE SplitLines(Tail(chars), Append(line, Head(chars)))

Lines(f) == SplitLines(f, <<>>)

\* '[WORKER_NAME] Processed: <item>', the line without its "\n"
ProcessedLine(w, val) == <<"[", w, "] Processed: ">> \o val

\* the lines of the file that start with w's '[WORKER_NAME] Processed: '
LinesOf(w) ==
    SelectSeq(Lines(file),
              LAMBDA l : Len(l) >= 3 /\ SubSeq(l, 1, 3) = ProcessedLine(w, <<>>))

\* every item that was pushed: those still queued and those popped
AllItems ==
    {queue[i] : i \in 1..Len(queue)}
      \cup UNION {{popped[w][i] : i \in 1..Len(popped[w])} : w \in Workers}

\* how many times the value val was pushed
TimesEnqueued(val) == Cardinality({it \in AllItems : it.val = val})

\* how many lines of the file are '[<some worker>] Processed: <val>'
LinesFor(val) ==
    Cardinality({i \in 1..Len(Lines(file)) :
                    \E w \in Workers : Lines(file)[i] = ProcessedLine(w, val)})

\* the workers that stopped between the pop of an item of value val and its write
Stranded(val) ==
    {w \in Workers : /\ pc[w] = "stopped"
                     /\ stdout[w].line = "Processing"
                     /\ message[w].val = val}

\* items popped for which no append to the file has happened
PoppedNotWritten ==
    SumOver([w \in Workers |-> Len(popped[w]) - appends[w]], Workers)

\* C6: when a worker is about to pop, the lines it has appended are exactly
\* '[WORKER_NAME] Processed: <item>' for the items it has popped, one line per
\* item and in pop order, whatever the items are (the empty string included).
C6_LinesEqualPops ==
    \A w \in Workers :
       pc[w] = "loop" =>
          /\ Len(LinesOf(w)) = Len(popped[w])
          /\ \A i \in 1..Len(popped[w]) :
                LinesOf(w)[i] = ProcessedLine(w, popped[w][i].val)

\* C7: an iteration whose lpop finds 'work_queue' empty leaves the output file and
\* the queue as they are, appends nothing, and advances only the worker's own
\* counter; no other worker is touched.
C7_EmptyPollStep ==
    \A w \in Workers :
       (pc[w] = "loop" /\ counter'[w] = counter[w] + 1 /\ queue = <<>>) =>
          /\ file' = file
          /\ queue' = queue
          /\ appends' = appends
          /\ popped' = popped
          /\ enqueued' = enqueued
          /\ exitcode' = exitcode
          /\ pc' = pc
          /\ message'[w] = None
          /\ \A v \in Workers \ {w} :
                /\ counter'[v] = counter[v]
                /\ message'[v] = message[v]
                /\ stdout'[v] = stdout[v]

C8_ConnectFailure ==
    \A w \in Workers :
       ( \/ stdout[w].line = "Failed to connect to Redis"
         \/ pc[w] = "exited"
         \/ exitcode[w] # <<>> )
       => /\ pc[w] = "exited"
          /\ exitcode[w] = <<1>>
          /\ stdout[w].line = "Failed to connect to Redis"
          /\ counter[w] = 0
          /\ popped[w] = <<>>
          /\ appends[w] = 0
          /\ LinesOf(w) = <<>>

\* one worker failed to connect while another one has processed an item
C8_Witness ==
    \E w, v \in Workers :
       /\ pc[w] = "exited"
       /\ exitcode[w] = <<1>>
       /\ appends[v] = 1
       /\ queue # <<>>

\* C10: with several workers on one queue and one file, no item is popped twice,
\* the lines for an item are never more than the times it was pushed (less those
\* stranded in a worker that stopped before its write), and lines written + items
\* popped but not written + items queued = items pushed.
C10_Conservation ==
    /\ \A w, v \in Workers : \A i \in 1..Len(popped[w]) : \A j \in 1..Len(popped[v]) :
          popped[w][i].id = popped[v][j].id => (w = v /\ i = j)
    /\ \A val \in ItemValues :
          LinesFor(val) + Cardinality(Stranded(val)) <= TimesEnqueued(val)
    /\ Len(Lines(file)) + PoppedNotWritten + Len(queue) = enqueued

\* the same accounting in append operations instead of lines of the file
AppendConservation ==
    /\ \A w, v \in Workers : \A i \in 1..Len(popped[w]) : \A j \in 1..Len(popped[v]) :
          popped[w][i].id = popped[v][j].id => (w = v /\ i = j)
    /\ SumOver(appends, Workers) + PoppedNotWritten + Len(queue) = enqueued
    /\ \A w \in Workers : appends[w] <= Len(popped[w])

====
